---- MODULE Spec2Model ----
(***************************************************************************)
(* A model of the buy bot of src/main.py: one invocation of main() (the    *)
(* connection steps, ensure_log, read_screener_tickers, the per-symbol     *)
(* sizing and submission loop, the final append_logs) together with the    *)
(* brokerage and the two worksheets it talks to.                           *)
(*                                                                         *)
(* Text is modelled in two ways.  A worksheet cell that the program takes  *)
(* apart (strip, upper) is a sequence of one-character strings; every     *)
(* other text value is a string built with \o and ToString.  Money is      *)
(* fixed point: buying power and the minimum notional are whole cents, the *)
(* percentage is in hundredths of a percent, so buying_power * percent /   *)
(* 100 is the integer bp * pct in units of 1/10000 cent.                   *)
(***************************************************************************)
EXTENDS Integers, Sequences, FiniteSets, TLC

VARIABLES
    pc,             \* position of the process
    failure,        \* the call whose exception left main(), "none" otherwise
    exitStatus,     \* exit status of the process, -1 while it runs
    screenerValues, \* content of the screener worksheet (get_all_values)
    logWs,          \* content of the audit worksheet, as rows of cells
    logWs0,         \* history: the audit worksheet as the process found it
    pct,            \* PERCENT_PER_TRADE in hundredths of a percent
    minNotional,    \* MIN_ORDER_NOTIONAL in cents
    brokerBP,       \* the brokerage's buying power in cents
    clock,          \* wall clock in milliseconds
    symbols,        \* main(): symbols
    i,              \* main(): index of the symbol in hand (1-based)
    buying_power,   \* main(): buying_power of the snapshot in hand
    logs,           \* main(): logs, the in-memory accumulator
    calls,          \* history: brokerage calls and sleeps, in order
    wsOps           \* history: calls made on the audit worksheet, in order

vars == <<pc, failure, exitStatus, screenerValues, logWs, logWs0, pct,
          minNotional, brokerBP, clock, symbols, i, buying_power, logs, calls, wsOps>>

--------------------------------------------------------------------------
(* Bounds of the model.                                                    *)

\* data rows of a screener table given to read_screener_tickers alone
MaxRows == 3
\* data rows of the screener table of a whole cycle
MaxFeed == 4
\* calls of place_buy_notional in the client_order_id specification
MaxCalls == 3
\* milliseconds the clock may advance between two place_buy_notional calls
MaxTick == 1
\* milliseconds a brokerage call of a cycle takes
CallMs == 1
\* rows already present in the audit worksheet below its first row
MaxOldRows == 1
\* append_logs alone: short lists of records have up to this many rows
MaxSmallRows == 3
\* append_logs alone: long lists of records fill up to this many batches
MaxBatches == 2

--------------------------------------------------------------------------
(* Text helpers: str.strip, str.upper on cells.                            *)

LOWER == <<"a","b","c","d","e","f","g","h","i","j","k","l","m",
           "n","o","p","q","r","s","t","u","v","w","x","y","z">>
UPPER == <<"A","B","C","D","E","F","G","H","I","J","K","L","M",
           "N","O","P","Q","R","S","T","U","V","W","X","Y","Z">>

IsSpace(c) == c \in {" ", "\t", "\n"}

UpperChar(c) ==
    IF \E k \in 1..Len(LOWER) : LOWER[k] = c
    THEN UPPER[CHOOSE k \in 1..Len(LOWER) : LOWER[k] = c]
    ELSE c

\* str.upper()
Upper(s) == [k \in 1..Len(s) |-> UpperChar(s[k])]

RECURSIVE LStrip(_)
LStrip(s) == IF s # <<>> /\ IsSpace(Head(s)) THEN LStrip(Tail(s)) ELSE s

RECURSIVE RStrip(_)
RStrip(s) ==
    IF s # <<>> /\ IsSpace(s[Len(s)]) THEN RStrip(SubSeq(s, 1, Len(s) - 1)) ELSE s

\* str.strip()
Strip(s) == RStrip(LStrip(s))

\* the Python str of a cell
RECURSIVE Str(_)
Str(s) == IF s = <<>> THEN "" ELSE Head(s) \o Str(Tail(s))

--------------------------------------------------------------------------
(* read_screener_tickers.  A table is get_all_values(): a sequence of      *)
(* rows, a row a sequence of cells.  Python's 0-based column index idx is  *)
(* kept; the cell of a row is row[idx + 1] here.                           *)

TICKER == <<"T","i","c","k","e","r">>

\* header.index("Ticker") on the header as it is, 0 on ValueError
HeaderIndexExact(headerRow) ==
    IF \E k \in 1..Len(headerRow) : headerRow[k] = TICKER
    THEN (CHOOSE k \in 1..Len(headerRow) :
             /\ headerRow[k] = TICKER
             /\ \A j \in 1..(k - 1) : headerRow[j] # TICKER) - 1
    ELSE 0

\* header.index("Ticker") on the stripped header, 0 on ValueError
HeaderIndex(headerRow) ==
    LET header == [k \in 1..Len(headerRow) |-> Strip(headerRow[k])]
    IN  IF \E k \in 1..Len(header) : header[k] = TICKER
        THEN (CHOOSE k \in 1..Len(header) :
                 /\ header[k] = TICKER
                 /\ \A j \in 1..(k - 1) : header[j] # TICKER) - 1
        ELSE 0

\* t = row[idx].strip().upper()
NormCell(cell) == Upper(Strip(cell))

\* the loop over values[1:]: rows too short for idx and empty t are left out
RECURSIVE CollectTickers(_, _)
CollectTickers(rows, idx) ==
    IF rows = <<>> THEN <<>>
    ELSE LET row == Head(rows)
             rest == CollectTickers(Tail(rows), idx)
         IN  IF idx < Len(row) /\ NormCell(row[idx + 1]) # <<>>
             THEN <<Str(NormCell(row[idx + 1]))>> \o rest
             ELSE rest

\* the seen/ordered loop: one step, given what has been kept so far
DedupStepKeepAll(ordered, t) == Append(ordered, t)

DedupStep(ordered, t) ==
    IF \E k \in 1..Len(ordered) : ordered[k] = t THEN ordered ELSE Append(ordered, t)

RECURSIVE Dedup(_, _)
Dedup(tickers, ordered) ==
    IF tickers = <<>> THEN ordered
    ELSE Dedup(Tail(tickers), DedupStep(ordered, Head(tickers)))

read_screener_tickers(values) ==
    IF values = <<>> THEN <<>>
    ELSE Dedup(CollectTickers(Tail(values), HeaderIndex(Head(values))), <<>>)

--------------------------------------------------------------------------
(* Inputs of read_screener_tickers.                                        *)

AAPL     == <<"A","A","P","L">>
msft     == <<"m","s","f","t">>
AAPLsp   == <<"A","A","P","L"," ">>
spMsft   == <<" ","M","s","f","t">>
TSLA     == <<"T","S","L","A">>
NVDA     == <<"N","V","D","A">>
NameCell == <<"N","a","m","e">>

CellChoices == {<<>>, <<" ">>, AAPL, msft, AAPLsp, spMsft}

\* a one-column row, or a two-column row whose ticker is in the second column
RowChoices == {<<c>> : c \in CellChoices} \cup {<<NameCell, c>> : c \in CellChoices}

HeaderChoices ==
    { <<TICKER>>, <<NameCell, TICKER>>, <<NameCell, <<" ">> \o TICKER \o <<" ">> >>,
      <<NameCell, Upper(TICKER)>>, <<TICKER, TICKER>>,
      << <<" ">> \o TICKER, TICKER>> }

RowSeqs(n) == UNION {[1..k -> RowChoices] : k \in 0..n}

Tables == {<<>>} \cup {<<h>> \o rs : h \in HeaderChoices, rs \in RowSeqs(MaxRows)}

\* the screener of a whole cycle: the first rows of a fixed feed under "Ticker"
Feed == <<AAPL, msft, AAPLsp, TSLA, NVDA>>

FeedLen(k) == IF k < Len(Feed) THEN k ELSE Len(Feed)

CycleTables ==
    {<<>>} \cup {<<<<TICKER>>>> \o [r \in 1..FeedLen(k) |-> <<Feed[r]>>] : k \in 0..MaxFeed}

--------------------------------------------------------------------------
(* The audit worksheet.  A worksheet is the sequence of its rows down to   *)
(* the last row that holds a value, a row the sequence of its cells up to  *)
(* the last cell that holds a value; every other cell is "".               *)

LOG_HEADERS ==
    <<"Timestamp", "Action", "Symbol", "NotionalUSD", "Qty", "OrderID", "Status", "Note">>

\* columns of LOG_TABLE_RANGE, A to H
LogCols == 8

\* rows of one append_rows call
BatchSize == 100

Max2(a, b) == IF a > b THEN a ELSE b
Min2(a, b) == IF a < b THEN a ELSE b

RECURSIVE TrimRow(_)
TrimRow(row) ==
    IF row # <<>> /\ row[Len(row)] = "" THEN TrimRow(SubSeq(row, 1, Len(row) - 1)) ELSE row

RECURSIVE TrimRows(_)
TrimRows(rows) ==
    IF rows # <<>> /\ rows[Len(rows)] = <<>>
    THEN TrimRows(SubSeq(rows, 1, Len(rows) - 1))
    ELSE rows

Cell(ws, r, c) == IF r <= Len(ws) /\ c <= Len(ws[r]) THEN ws[r][c] ELSE ""

\* the cells A..H of row r
RowAH(ws, r) == [c \in 1..LogCols |-> Cell(ws, r, c)]

\* ws.get_values("A1:H1"): no row when A1:H1 is blank, else the row without
\* its trailing blank cells
get_values_A1H1(ws) ==
    IF TrimRow(RowAH(ws, 1)) = <<>> THEN <<>> ELSE <<TrimRow(RowAH(ws, 1))>>

\* ws.get_all_values()
get_all_values(ws) == ws

\* row r of the worksheet after its cells, from column A on, are set to vals
WriteRow(ws, r, vals) ==
    LET old == IF r <= Len(ws) THEN ws[r] ELSE <<>>
    IN  TrimRow([c \in 1..Max2(Len(vals), Len(old)) |->
                    IF c <= Len(vals) THEN vals[c] ELSE old[c]])

\* ws.update("A<start>:H<end>", rows): the rows written from row start on
update(ws, start, rows) ==
    IF rows = <<>> THEN ws
    ELSE TrimRows([k \in 1..Max2(Len(ws), start + Len(rows) - 1) |->
                      IF k >= start /\ k < start + Len(rows)
                      THEN WriteRow(ws, k, rows[k - start + 1])
                      ELSE IF k <= Len(ws) THEN ws[k] ELSE <<>>])

\* the last row of the table that Sheets finds at A1:H1: the rows from row
\* r + 1 on that hold a value in A..H, up to the first blank one
TableEnd(ws, r) ==
    LET blank == {k \in (r + 1)..Len(ws) : TrimRow(RowAH(ws, k)) = <<>>}
    IN  IF blank = {} THEN Max2(r, Len(ws))
        ELSE (CHOOSE b \in blank : \A b2 \in blank : b <= b2) - 1

\* ws.append_rows(rows, table_range="A1:H1"): written below the table
append_rows(ws, rows) == update(ws, TableEnd(ws, 0) + 1, rows)

\* one entry of wsOps
WsOp(op, row, rows, ok) == [op |-> op, row |-> row, rows |-> rows, ok |-> ok]

\* ensure_log's test of the first row
HeaderWrongAlways(ws) == TRUE

HeaderWrong(ws) ==
    LET vals == get_values_A1H1(ws) IN vals = <<>> \/ vals[1] # LOG_HEADERS

\* ensure_log(ws) when nothing raises out of it; frozen tells whether
\* ws.freeze succeeded, which the except clause hides
ensure_log(ws, frozen) ==
    [ws  |-> IF HeaderWrong(ws) THEN update(ws, 1, <<LOG_HEADERS>>) ELSE ws,
     ops |-> <<WsOp("get_values", 1, <<>>, TRUE)>>
             \o (IF HeaderWrong(ws) THEN <<WsOp("update", 1, <<LOG_HEADERS>>, TRUE)>> ELSE <<>>)
             \o <<WsOp("freeze", 1, <<>>, frozen)>>]

\* append_logs: r padded to 8 fields
Fix8PadOnly(r) ==
    IF Len(r) < LogCols THEN r \o [k \in 1..(LogCols - Len(r)) |-> ""] ELSE r

\* append_logs: r padded or cut to 8 fields
Fix8(r) ==
    IF Len(r) < LogCols THEN r \o [k \in 1..(LogCols - Len(r)) |-> ""]
    ELSE IF Len(r) > LogCols THEN SubSeq(r, 1, LogCols)
    ELSE r

\* fixed[i:i+100] for the k-th batch, k from 1
BatchFromSecond(fixed, k) ==
    SubSeq(fixed, (k - 1) * BatchSize + 2, Min2(k * BatchSize, Len(fixed)))

Batch(fixed, k) ==
    SubSeq(fixed, (k - 1) * BatchSize + 1, Min2(k * BatchSize, Len(fixed)))

NumBatches(fixed) == (Len(fixed) + BatchSize - 1) \div BatchSize

\* the except TypeError branch, run on the worksheet as it then is
Fallback(ws, ops, fixed) ==
    LET start_row == Len(get_all_values(ws)) + 1
    IN  [ws  |-> update(ws, start_row, fixed),
         ops |-> ops \o <<WsOp("get_all_values", 0, <<>>, TRUE),
                          WsOp("update", start_row, fixed, TRUE)>>]

\* the for loop from batch k on; the append_rows call of batch errAt raises
\* TypeError (errAt = 0: none does)
RECURSIVE Anchored(_, _, _, _, _)
Anchored(ws, ops, fixed, k, errAt) ==
    IF k > NumBatches(fixed) THEN [ws |-> ws, ops |-> ops]
    ELSE IF k = errAt
         THEN Fallback(ws, ops \o <<WsOp("append_rows", 0, Batch(fixed, k), FALSE)>>, fixed)
         ELSE Anchored(append_rows(ws, Batch(fixed, k)),
                       ops \o <<WsOp("append_rows", TableEnd(ws, 0) + 1, Batch(fixed, k), TRUE)>>,
                       fixed, k + 1, errAt)

append_logs(ws, rows, errAt) ==
    IF rows = <<>> THEN [ws |-> ws, ops |-> <<>>]
    ELSE Anchored(ws, <<>>, [k \in 1..Len(rows) |-> Fix8(rows[k])], 1, errAt)

\* initial contents of the audit worksheet
OldRecord == <<"T0Z", "BUY", "AAPL", "50.00", "", "o0", "accepted">>

Row1Choices ==
    { <<>>, LOG_HEADERS, SubSeq(LOG_HEADERS, 1, 7), LOG_HEADERS \o <<"Extra">>,
      <<"timestamp">> \o Tail(LOG_HEADERS), OldRecord }

OldRowSeqs == UNION {[1..k -> {OldRecord, LOG_HEADERS}] : k \in 0..MaxOldRows}

LogSheets == {TrimRows(<<r1>> \o rs) : r1 \in Row1Choices, rs \in OldRowSeqs}

--------------------------------------------------------------------------
(* Sizing, formatting and the brokerage.                                   *)

\* SLEEP_BETWEEN_ORDERS_SEC, in milliseconds
SleepMs == 500

\* now_iso_utc(): the clock to the second
now_iso_utc(ms) == "T" \o ToString(ms \div 1000) \o "Z"

\* f"{x:.2f}" of a whole number of cents
Fmt2(c) ==
    ToString(c \div 100) \o "." \o (IF c % 100 < 10 THEN "0" ELSE "") \o ToString(c % 100)

\* buying_power * (PERCENT_PER_TRADE / 100.0), in 1/10000 cent
Notional(bp, p) == bp * p

\* whether the float product is the exact product: PERCENT_PER_TRADE / 100.0
\* is a power of two, or nothing is multiplied
FloatExact(bp, p) == bp = 0 \/ p \in {625, 1250, 2500, 5000, 10000}

\* the outcomes of notional < MIN_ORDER_NOTIONAL.  The operands are binary
\* floats: when the decimal product equals the minimum, the float product
\* may lie just below it (22.4 * (5.0 / 100.0) = 1.1199999999999999 < 1.12)
SkipOutcomes(bp, p, m) ==
    IF Notional(bp, p) = m * 10000 /\ ~FloatExact(bp, p) THEN {TRUE, FALSE}
    ELSE {Notional(bp, p) < m * 10000}

\* round(notional, 2) and f"{notional:.2f}", in cents: the nearest cent; a
\* decimal tie goes either way, with the error of the float operands
Round2(bp, p) ==
    LET n == Notional(bp, p)
        q == n \div 10000
        r == n % 10000
    IN  IF r < 5000 THEN {q}
        ELSE IF r > 5000 THEN {q + 1}
        ELSE {q, q + 1}

\* client_order_id = f"buy-{symbol}-{int(time.time()*1000)}"
client_order_id(symbol, ms) == "buy-" \o symbol \o "-" \o ToString(ms)

\* order objects the brokerage answers with: status present or not, qty
\* empty before the fill or present
Responses ==
    { [hasStatus |-> TRUE,  status |-> "accepted", qty |-> ""],
      [hasStatus |-> FALSE, status |-> "",         qty |-> "2"] }

\* one entry of calls
Call(op, iter, sym, n, coid, ok, bp) ==
    [op |-> op, iter |-> iter, sym |-> sym, notional |-> n, coid |-> coid,
     ok |-> ok, bp |-> bp]

\* the three records of the loop
SkipRecordAsBuy(ms, symbol, n2, m) ==
    <<now_iso_utc(ms), "BUY", symbol, Fmt2(n2), "", "", "SKIPPED",
      "Notional " \o Fmt2(n2) \o " < MIN_ORDER_NOTIONAL " \o Fmt2(m)>>

SkipRecord(ms, symbol, n2, m) ==
    <<now_iso_utc(ms), "BUY-SKIP", symbol, Fmt2(n2), "", "", "SKIPPED",
      "Notional " \o Fmt2(n2) \o " < MIN_ORDER_NOTIONAL " \o Fmt2(m)>>

BuyRecordRawStatus(ms, symbol, n2, resp, oid) ==
    <<now_iso_utc(ms), "BUY", symbol, Fmt2(n2), resp.qty, oid, resp.status, "">>

BuyRecord(ms, symbol, n2, resp, oid) ==
    <<now_iso_utc(ms), "BUY", symbol, Fmt2(n2), resp.qty, oid,
      IF resp.hasStatus THEN resp.status ELSE "submitted", "">>

ErrorRecord(ms, symbol, msg) ==
    <<now_iso_utc(ms), "BUY-ERROR", symbol, "", "", "", "ERROR", msg>>

--------------------------------------------------------------------------
(* One invocation of the program: main() under the __main__ guard.         *)

BPChoices  == {0, 2240, 100000}
PctChoices == {5, 500, 10000}
MinChoices == {0, 100, 112}

CycleSheets == {<<>>, <<OldRecord>>, <<LOG_HEADERS, OldRecord>>}

Init ==
    /\ pc = "start"
    /\ failure = "none"
    /\ exitStatus = -1
    /\ screenerValues \in CycleTables
    /\ logWs \in CycleSheets
    /\ logWs0 = logWs
    /\ pct \in PctChoices
    /\ minNotional \in MinChoices
    /\ brokerBP \in BPChoices
    /\ clock = 0
    /\ symbols = <<>>
    /\ i = 0
    /\ buying_power = 0
    /\ logs = <<>>
    /\ calls = <<>>
    /\ wsOps = <<>>

\* an exception leaves main()
Raise(f) ==
    /\ pc' = "raised"
    /\ failure' = f

cycleVars == <<symbols, i, buying_power, logs, calls>>
worldVars == <<screenerValues, logWs, logWs0, pct, minNotional, brokerBP, clock>>

\* gc = get_google_client(): RuntimeError without GOOGLE_CREDS_JSON
GetGoogleClient ==
    /\ pc = "start"
    /\ \/ pc' = "make_alpaca" /\ UNCHANGED failure
       \/ Raise("get_google_client")
    /\ UNCHANGED <<exitStatus, worldVars, cycleVars, wsOps>>

\* api = make_alpaca(): RuntimeError without the two keys
MakeAlpaca ==
    /\ pc = "make_alpaca"
    /\ \/ pc' = "open_screener" /\ UNCHANGED failure
       \/ Raise("make_alpaca")
    /\ UNCHANGED <<exitStatus, worldVars, cycleVars, wsOps>>

\* screener_ws = _get_ws(gc, SHEET_NAME, SCREENER_TAB)
OpenScreener ==
    /\ pc = "open_screener"
    /\ \/ pc' = "open_log" /\ UNCHANGED failure
       \/ Raise("open_screener")
    /\ UNCHANGED <<exitStatus, worldVars, cycleVars, wsOps>>

\* log_ws = _get_ws(gc, SHEET_NAME, LOG_TAB)
OpenLog ==
    /\ pc = "open_log"
    /\ \/ pc' = "ensure_log" /\ UNCHANGED failure
       \/ Raise("open_log")
    /\ UNCHANGED <<exitStatus, worldVars, cycleVars, wsOps>>

\* ensure_log(log_ws); get_values or update may raise, before anything is written
EnsureLog ==
    /\ pc = "ensure_log"
    /\ \/ \E frozen \in BOOLEAN :
            /\ logWs' = ensure_log(logWs, frozen).ws
            /\ wsOps' = wsOps \o ensure_log(logWs, frozen).ops
            /\ pc' = "read"
            /\ UNCHANGED failure
       \/ Raise("ensure_log") /\ UNCHANGED <<logWs, wsOps>>
    /\ UNCHANGED <<exitStatus, screenerValues, logWs0, pct, minNotional, brokerBP, clock,
                   cycleVars>>

\* symbols = read_screener_tickers(screener_ws); if not symbols: return
ReadScreener ==
    /\ pc = "read"
    /\ \/ /\ symbols' = read_screener_tickers(screenerValues)
          /\ IF symbols' = <<>>
             THEN pc' = "returned" /\ i' = i
             ELSE pc' = "get_account" /\ i' = 1
          /\ UNCHANGED failure
       \/ Raise("read_screener_tickers") /\ UNCHANGED <<symbols, i>>
    /\ UNCHANGED <<exitStatus, worldVars, buying_power, logs, calls, wsOps>>

\* the for loop moves to the next symbol, or to the statement after the loop
NextPcFlush(k) == "flush"

NextPc(k) == IF k = Len(symbols) THEN "flush" ELSE "get_account"

\* where the except clause of the loop body leaves the process: in the loop
AfterErrorAbort(k) == "flush"

AfterError(k) == NextPc(k)

\* where the BUY record leaves the process: at time.sleep
AfterBuySkipSleep == "get_account"

AfterBuy == "sleep"

\* acct = api.get_account(); buying_power = float(acct.buying_power), or
\* float(acct.cash) when that fails.  The brokerage has one capacity figure,
\* reported under either name.  An exception goes to the except clause.
GetAccountCached == IF i = 1 THEN brokerBP ELSE buying_power

GetAccountValue == brokerBP

GetAccount ==
    /\ pc = "get_account"
    /\ clock' = clock + CallMs
    /\ \/ \E field \in {"buying_power", "cash"} :
            /\ buying_power' = GetAccountValue
            /\ calls' = Append(calls, Call("get_account", i, symbols[i], 0, field, TRUE, brokerBP))
            /\ pc' = "size"
            /\ UNCHANGED <<i, logs>>
       \/ /\ calls' = Append(calls, Call("get_account", i, symbols[i], 0, "", FALSE, brokerBP))
          /\ logs' = Append(logs, ErrorRecord(clock', symbols[i], "APIError: account"))
          /\ pc' = AfterError(i)
          /\ i' = i + 1
          /\ UNCHANGED buying_power
    /\ UNCHANGED <<failure, exitStatus, screenerValues, logWs, logWs0, pct, minNotional,
                   brokerBP, symbols, wsOps>>

\* if notional < MIN_ORDER_NOTIONAL: log BUY-SKIP; continue
SizeSkip ==
    /\ pc = "size"
    /\ TRUE \in SkipOutcomes(buying_power, pct, minNotional)
    /\ \E n2 \in Round2(buying_power, pct) :
          logs' = Append(logs, SkipRecord(clock, symbols[i], n2, minNotional))
    /\ pc' = NextPc(i)
    /\ i' = i + 1
    /\ UNCHANGED <<failure, exitStatus, worldVars, symbols, buying_power, calls, wsOps>>

\* order = place_buy_notional(api, symbol, notional, EXTENDED_HOURS), then
\* the BUY record; an exception of submit_order goes to the except clause
PlaceBuy ==
    /\ pc = "size"
    /\ FALSE \in SkipOutcomes(buying_power, pct, minNotional)
    /\ clock' = clock + CallMs
    /\ \E n2 \in Round2(buying_power, pct) :
        LET coid == client_order_id(symbols[i], clock) IN
        \/ \E resp \in Responses :
              /\ calls' = Append(calls, Call("submit_order", i, symbols[i], n2, coid, TRUE, brokerBP))
              /\ brokerBP' = brokerBP - n2
              /\ logs' = Append(logs, BuyRecord(clock', symbols[i], n2, resp,
                                                "o" \o ToString(Len(calls))))
              /\ pc' = AfterBuy
              /\ i' = i
        \/ /\ calls' = Append(calls, Call("submit_order", i, symbols[i], n2, coid, FALSE, brokerBP))
           /\ brokerBP' = brokerBP
           /\ logs' = Append(logs, ErrorRecord(clock', symbols[i], "APIError: order"))
           /\ pc' = AfterError(i)
           /\ i' = i + 1
    /\ UNCHANGED <<failure, exitStatus, screenerValues, logWs, logWs0, pct, minNotional,
                   symbols, buying_power, wsOps>>

\* time.sleep(SLEEP_BETWEEN_ORDERS_SEC)
Sleep ==
    /\ pc = "sleep"
    /\ clock' = clock + SleepMs
    /\ calls' = Append(calls, Call("sleep", i, symbols[i], 0, "", TRUE, brokerBP))
    /\ pc' = NextPc(i)
    /\ i' = i + 1
    /\ UNCHANGED <<failure, exitStatus, screenerValues, logWs, logWs0, pct, minNotional,
                   brokerBP, symbols, buying_power, logs, wsOps>>

\* append_logs(log_ws, logs): with or without table_range support in the
\* installed gspread; any other exception of the worksheet leaves main()
AppendLogs ==
    /\ pc = "flush"
    /\ \/ \E errAt \in {0, 1} :
            /\ logWs' = append_logs(logWs, logs, errAt).ws
            /\ wsOps' = wsOps \o append_logs(logWs, logs, errAt).ops
            /\ pc' = "returned"
            /\ UNCHANGED failure
       \/ Raise("append_logs") /\ UNCHANGED <<logWs, wsOps>>
    /\ UNCHANGED <<exitStatus, screenerValues, logWs0, pct, minNotional, brokerBP, clock,
                   cycleVars>>

\* main() returned: the script ends
ExitAfterReturn ==
    /\ pc = "returned"
    /\ pc' = "exited"
    /\ exitStatus' = 0
    /\ UNCHANGED <<failure, worldVars, cycleVars, wsOps>>

\* except Exception under __main__: the error is printed, the script ends
ExitAfterFatal ==
    /\ pc = "raised"
    /\ pc' = "exited"
    /\ exitStatus' = 0
    /\ UNCHANGED <<failure, worldVars, cycleVars, wsOps>>

Next ==
    \/ GetGoogleClient
    \/ MakeAlpaca
    \/ OpenScreener
    \/ OpenLog
    \/ EnsureLog
    \/ ReadScreener
    \/ GetAccount
    \/ SizeSkip
    \/ PlaceBuy
    \/ Sleep
    \/ AppendLogs
    \/ ExitAfterReturn
    \/ ExitAfterFatal

Spec == Init /\ [][Next]_vars

--------------------------------------------------------------------------
(* read_screener_tickers on its own: every table of Tables is read once.   *)

InitRead ==
    /\ pc = "read:input"
    /\ screenerValues \in Tables
    /\ failure = "none"
    /\ exitStatus = -1
    /\ logWs = <<>>
    /\ logWs0 = <<>>
    /\ pct = 500
    /\ minNotional = 100
    /\ brokerBP = 0
    /\ clock = 0
    /\ symbols = <<>>
    /\ i = 0
    /\ buying_power = 0
    /\ logs = <<>>
    /\ calls = <<>>
    /\ wsOps = <<>>

ReadTickers ==
    /\ pc = "read:input"
    /\ symbols' = read_screener_tickers(screenerValues)
    /\ pc' = "read:done"
    /\ UNCHANGED <<failure, exitStatus, worldVars, i, buying_power, logs, calls, wsOps>>

NextRead == ReadTickers

SpecRead == InitRead /\ [][NextRead]_vars

\* the data rows of a table, and the normalised cell of data row k in the
\* column that read_screener_tickers reads ("" when the row has no such cell)
DataRows(values) == IF values = <<>> THEN <<>> ELSE Tail(values)

NormAt(values, k) ==
    LET row == DataRows(values)[k]
        idx == HeaderIndex(Head(values))
    IN  IF idx < Len(row) THEN Str(Upper(Strip(row[idx + 1]))) ELSE ""

\* the data rows that contribute: a non-empty value not seen in an earlier row
FirstSeen(values) ==
    {k \in 1..Len(DataRows(values)) :
        /\ NormAt(values, k) # ""
        /\ \A j \in 1..(k - 1) : NormAt(values, j) # NormAt(values, k)}

\* the m-th contributing row, in row order
NthFirstSeen(values, m) ==
    CHOOSE k \in FirstSeen(values) :
        Cardinality({j \in FirstSeen(values) : j <= k}) = m

\* C8: read_screener_tickers returns the normalised (trimmed, upper-cased)
\* cells of the chosen column, without the empty ones, each value once at its
\* first occurrence and in that order; so no duplicate, no empty string,
\* nothing for a table without data rows, and AAPL, msft, "AAPL " read as
\* AAPL, MSFT.
C8_ReadScreenerDedup ==
    pc = "read:done" =>
        /\ Len(symbols) = Cardinality(FirstSeen(screenerValues))
        /\ \A m \in 1..Len(symbols) :
              symbols[m] = NormAt(screenerValues, NthFirstSeen(screenerValues, m))
        /\ \A m, n \in 1..Len(symbols) : m # n => symbols[m] # symbols[n]
        /\ \A m \in 1..Len(symbols) : symbols[m] # ""
        /\ Len(screenerValues) <= 1 => symbols = <<>>
        /\ screenerValues = <<<<TICKER>>, <<AAPL>>, <<msft>>, <<AAPLsp>>>>
              => symbols = <<"AAPL", "MSFT">>

C8_Witness ==
    /\ pc = "read:done"
    /\ screenerValues = <<<<TICKER>>, <<AAPL>>, <<msft>>, <<AAPLsp>>>>
    /\ symbols = <<"AAPL", "MSFT">>

--------------------------------------------------------------------------
(* ensure_log on its own: called twice in a row on every sheet of          *)
(* LogSheets.  i counts the calls made.                                    *)

InitLog ==
    /\ pc = "log"
    /\ logWs \in LogSheets
    /\ logWs0 = logWs
    /\ i = 0
    /\ failure = "none"
    /\ exitStatus = -1
    /\ screenerValues = <<>>
    /\ pct = 500
    /\ minNotional = 100
    /\ brokerBP = 0
    /\ clock = 0
    /\ symbols = <<>>
    /\ buying_power = 0
    /\ logs = <<>>
    /\ calls = <<>>
    /\ wsOps = <<>>

EnsureLogCall ==
    /\ pc = "log"
    /\ i < 2
    /\ \E frozen \in BOOLEAN :
          /\ logWs' = ensure_log(logWs, frozen).ws
          /\ wsOps' = wsOps \o ensure_log(logWs, frozen).ops
    /\ i' = i + 1
    /\ UNCHANGED <<pc, failure, exitStatus, screenerValues, logWs0, pct, minNotional,
                   brokerBP, clock, symbols, buying_power, logs, calls>>

NextLog == EnsureLogCall

SpecLog == InitLog /\ [][NextLog]_vars

\* the rows of a worksheet that are the header
HeaderRows(ws) == {r \in 1..Len(ws) : ws[r] = LOG_HEADERS}

\* the update calls among worksheet calls
Updates(ops) == {k \in 1..Len(ops) : ops[k].op = "update"}

\* C10: after one ensure_log the range A1:H1 is the 8-column header, and a
\* second ensure_log right after it writes no header, changes no cell of the
\* worksheet and adds no header row.
C10_EnsureLogIdempotent ==
    /\ [](pc = "log" /\ i >= 1 => RowAH(logWs, 1) = LOG_HEADERS)
    /\ [][pc = "log" /\ i = 1 =>
            /\ logWs' = logWs
            /\ Updates(wsOps') = Updates(wsOps)
            /\ HeaderRows(logWs') = HeaderRows(logWs)]_vars

\* both calls made on a sheet whose first row was not the header: one write
C10_Witness ==
    /\ pc = "log"
    /\ i = 2
    /\ RowAH(logWs0, 1) # LOG_HEADERS
    /\ Cardinality(Updates(wsOps)) = 1
    /\ logWs # logWs0

--------------------------------------------------------------------------
(* place_buy_notional on its own: up to MaxCalls calls in one process, for *)
(* any symbols, the clock moving 0..MaxTick ms between two calls.          *)

IdSymbols == {"AAPL", "MSFT"}

InitIds ==
    /\ pc = "ids"
    /\ clock = 0
    /\ calls = <<>>
    /\ brokerBP = 100000
    /\ failure = "none"
    /\ exitStatus = -1
    /\ screenerValues = <<>>
    /\ logWs = <<>>
    /\ logWs0 = <<>>
    /\ pct = 500
    /\ minNotional = 100
    /\ symbols = <<>>
    /\ i = 0
    /\ buying_power = 0
    /\ logs = <<>>
    /\ wsOps = <<>>

\* place_buy_notional(api, symbol, notional, extended): time.time() is read,
\* submit_order is called with the id and returns or raises
PlaceBuyNotionalCall ==
    /\ pc = "ids"
    /\ Len(calls) < MaxCalls
    /\ \E symbol \in IdSymbols, d \in 0..MaxTick, ok \in BOOLEAN :
          /\ clock' = clock + d
          /\ calls' = Append(calls, Call("submit_order", Len(calls) + 1, symbol, 5000,
                                         client_order_id(symbol, clock'), ok, brokerBP))
    /\ UNCHANGED <<pc, failure, exitStatus, screenerValues, logWs, logWs0, pct, minNotional,
                   brokerBP, symbols, i, buying_power, logs, wsOps>>

NextIds == PlaceBuyNotionalCall

SpecIds == InitIds /\ [][NextIds]_vars

\* C6: any two place_buy_notional calls of one process, two calls for the
\* same symbol included, send different client_order_id values.
C6_DistinctClientOrderIds ==
    \A j, k \in 1..Len(calls) :
        (j # k /\ calls[j].op = "submit_order" /\ calls[k].op = "submit_order")
            => calls[j].coid # calls[k].coid

--------------------------------------------------------------------------
(* Properties of a whole cycle (specification Spec).                       *)

\* the brokerage calls of iteration k that raised
FailedCalls(k) ==
    {c \in 1..Len(calls) :
        calls[c].iter = k /\ calls[c].op \in {"get_account", "submit_order"} /\ ~calls[c].ok}

\* iteration k called get_account
Visited(k) == \E c \in 1..Len(calls) : calls[c].op = "get_account" /\ calls[c].iter = k

\* the accumulated records of a symbol, and the Action column of the accumulator
RecordsOf(symbol) == {r \in 1..Len(logs) : logs[r][3] = symbol}

Actions == [r \in 1..Len(logs) |-> logs[r][2]]

\* the loop is over: the process is at append_logs or beyond it
AfterLoop ==
    /\ symbols # <<>>
    /\ \/ pc \in {"flush", "returned"}
       \/ pc \in {"raised", "exited"} /\ failure \in {"none", "append_logs"}

\* all three symbols were submitted and only the second submission raised
OnlySecondSubmitRaised ==
    /\ Len(symbols) = 3
    /\ i = 4
    /\ \A k \in 1..3 : \E c \in 1..Len(calls) :
          calls[c].op = "submit_order" /\ calls[c].iter = k /\ (calls[c].ok <=> k # 2)
    /\ \A c \in 1..Len(calls) : calls[c].op = "get_account" => calls[c].ok

\* C1: whichever get_account and submit_order calls raise, every symbol is
\* still visited, a symbol whose call raised has exactly one record and it
\* is BUY-ERROR, no exception leaves the loop and the process goes on to
\* append_logs; with three symbols of which only the second submission
\* raises the records are BUY, BUY-ERROR, BUY.
C1_FaultIsolation ==
    /\ \A k \in 1..Len(symbols) : k < i => Visited(k)
    /\ \A k \in 1..Len(symbols) :
          (k < i /\ FailedCalls(k) # {}) =>
              /\ Cardinality(RecordsOf(symbols[k])) = 1
              /\ \A r \in RecordsOf(symbols[k]) : logs[r][2] = "BUY-ERROR"
    /\ AfterLoop => i = Len(symbols) + 1 /\ Len(logs) = Len(symbols)
    /\ (pc = "raised" /\ symbols # <<>>) => failure = "append_logs"
    /\ pc = "get_account" => ENABLED GetAccount
    /\ pc = "size" => ENABLED (SizeSkip \/ PlaceBuy)
    /\ pc = "sleep" => ENABLED Sleep
    /\ pc \in {"get_account", "size", "sleep"} => failure = "none"
    /\ OnlySecondSubmitRaised => Actions = <<"BUY", "BUY-ERROR", "BUY">>

C1_Witness ==
    /\ pc = "returned"
    /\ OnlySecondSubmitRaised
    /\ Actions = <<"BUY", "BUY-ERROR", "BUY">>
    /\ \E k \in 1..Len(wsOps) : wsOps[k].op = "append_rows" /\ wsOps[k].ok

\* the worksheet calls made after ensure_log, and the rows they hand over
FlushOps ==
    IF \E k \in 1..Len(wsOps) : wsOps[k].op = "freeze"
    THEN SubSeq(wsOps, (CHOOSE k \in 1..Len(wsOps) : wsOps[k].op = "freeze") + 1, Len(wsOps))
    ELSE <<>>

RECURSIVE RowsOf(_)
RowsOf(ops) ==
    IF ops = <<>> THEN <<>>
    ELSE (IF Head(ops).ok /\ Head(ops).op \in {"append_rows", "update"}
          THEN Head(ops).rows ELSE <<>>) \o RowsOf(Tail(ops))

HandedRows == RowsOf(FlushOps)

\* C2: when a cycle over N symbols finishes, append_logs has handed exactly
\* N rows to the audit worksheet, the k-th for the k-th symbol, each of
\* exactly 8 fields.
C2_OneRowPerSymbol ==
    (pc \in {"returned", "exited"} /\ failure = "none" /\ symbols # <<>>) =>
        /\ Len(HandedRows) = Len(symbols)
        /\ \A k \in 1..Len(HandedRows) :
              Len(HandedRows[k]) = 8 /\ HandedRows[k][3] = symbols[k]

C2_Witness ==
    /\ pc = "exited"
    /\ failure = "none"
    /\ Len(symbols) = 3
    /\ Len(HandedRows) = 3
    /\ \E k \in 1..3 : HandedRows[k][2] = "BUY-ERROR"
    /\ \E k \in 1..3 : HandedRows[k][2] = "BUY"

\* row r of a worksheet, and the cells of row 1 to the right of column H
RowOf(ws, r) == IF r <= Len(ws) THEN ws[r] ELSE <<>>

RightOfH(ws) ==
    [c \in 1..(Len(RowOf(ws, 1)) - LogCols) |-> RowOf(ws, 1)[c + LogCols]]

\* a cycle that ended after reading an empty screener
EmptyRun == pc = "exited" /\ failure = "none" /\ symbols = <<>>

\* C3: with no ticker in the screener, an invocation makes no brokerage call
\* and no write to the audit worksheet, whatever the worksheet held.
C3_NoWriteAtAll ==
    EmptyRun =>
        /\ calls = <<>>
        /\ \A k \in 1..Len(wsOps) : wsOps[k].op \notin {"update", "append_rows"}

\* C3 as amended: with no ticker in the screener, an invocation makes no
\* brokerage call and appends no log record; the one write the audit
\* worksheet can see is ensure_log's header write to A1:H1, made before the
\* screener is read and only when the first row was not the header, and no
\* cell outside A1:H1 changes.
C3_EmptyInput ==
    EmptyRun =>
        /\ calls = <<>>
        /\ logs = <<>>
        /\ \A k \in 1..Len(wsOps) : wsOps[k].op \notin {"append_rows", "get_all_values"}
        /\ \A k \in 1..Len(wsOps) :
              wsOps[k].op = "update" =>
                  /\ wsOps[k].row = 1
                  /\ wsOps[k].rows = <<LOG_HEADERS>>
                  /\ RowAH(logWs0, 1) # LOG_HEADERS
        /\ Cardinality(Updates(wsOps)) <= 1
        /\ \A r \in 2..Max2(Len(logWs), Len(logWs0)) : RowOf(logWs, r) = RowOf(logWs0, r)
        /\ RightOfH(logWs) = RightOfH(logWs0)

C3_Witness ==
    /\ EmptyRun
    /\ Cardinality(Updates(wsOps)) = 1
    /\ logWs # logWs0

\* the buying power of the brokerage when the cycle began
B0 == IF calls = <<>> THEN brokerBP ELSE calls[1].bp

\* the submit_order calls, and the sum of the notionals of those accepted
Submits == {c \in 1..Len(calls) : calls[c].op = "submit_order"}

RECURSIVE SumAccepted(_)
SumAccepted(cs) ==
    IF cs = <<>> THEN 0
    ELSE (IF Head(cs).op = "submit_order" /\ Head(cs).ok THEN Head(cs).notional ELSE 0)
         + SumAccepted(Tail(cs))

\* the cents nearest to n/10000 cents
NearestCents(n) == {c \in {n \div 10000, n \div 10000 + 1} : 2 * (c * 10000 - n) \in -10000..10000}

\* C4: a sizing decision uses the buying power that a get_account call of
\* the same iteration returned, made after every submit_order call of the
\* earlier symbols; the value sized from is the brokerage's figure of that
\* moment, never one read for another symbol.
C4_FreshSnapshot ==
    /\ pc = "size" =>
          /\ calls # <<>>
          /\ calls[Len(calls)].op = "get_account"
          /\ calls[Len(calls)].ok
          /\ calls[Len(calls)].iter = i
          /\ buying_power = calls[Len(calls)].bp
          /\ buying_power = B0 - SumAccepted(calls)
          /\ \A c \in Submits : calls[c].iter < i
    /\ \A c \in Submits :
          /\ c > 1
          /\ calls[c - 1].op = "get_account"
          /\ calls[c - 1].ok
          /\ calls[c - 1].iter = calls[c].iter
          /\ calls[c].notional \in NearestCents(calls[c - 1].bp * pct)

\* a later symbol is being sized after an order of an earlier one was accepted
C4_Witness ==
    /\ pc = "size"
    /\ i >= 2
    /\ \E c \in Submits : calls[c].ok /\ calls[c].notional > 0
    /\ buying_power < B0

\* C5: with the brokerage's buying power starting at B0 cents and going down
\* by the notional of every accepted order, and a percent in (0, 100], the
\* notionals of the orders accepted in one cycle sum to at most B0, and no
\* submitted notional is above the buying power reported just before it.
C5_NoOverspend ==
    (pct > 0 /\ pct <= 10000) =>
        /\ SumAccepted(calls) <= B0
        /\ brokerBP >= 0
        /\ \A c \in Submits : c > 1 /\ calls[c].notional <= calls[c - 1].bp
        /\ \A c \in Submits : calls[c].notional <= calls[c].bp

\* everything was spent by the first order and the next symbol was skipped,
\* or several orders were accepted
C5_Witness ==
    /\ pc = "exited"
    /\ B0 > 0
    /\ \/ /\ pct = 10000
          /\ SumAccepted(calls) = B0
          /\ \E r \in 1..Len(logs) : logs[r][2] = "BUY-SKIP"
       \/ /\ pct = 500
          /\ Cardinality({c \in Submits : calls[c].ok}) >= 3

\* a failure before the cycle
PreCycleFailures ==
    {"get_google_client", "make_alpaca", "open_screener", "open_log", "ensure_log",
     "read_screener_tickers"}

\* C7: when credentials or keys are missing, or opening a worksheet or
\* reading the screener fails, no symbol is processed, no log record is
\* appended and the process ends with a non-zero exit status.
C7_FatalExitsNonZero ==
    (pc = "exited" /\ failure \in PreCycleFailures) =>
        /\ calls = <<>>
        /\ logs = <<>>
        /\ \A k \in 1..Len(wsOps) : wsOps[k].op # "append_rows"
        /\ exitStatus # 0

\* the iterations whose sizing decision has been taken, with the buying
\* power it was taken on
Decided ==
    {c \in 1..Len(calls) :
        /\ calls[c].op = "get_account"
        /\ calls[c].ok
        /\ (calls[c].iter < i \/ pc = "sleep")}

\* C9: a symbol is skipped exactly when buying_power * percent / 100 is less
\* than the minimum notional, and otherwise an order goes out whose notional
\* is that product rounded to the cent: 1000.00 at 5.0 percent gives 50.00,
\* and 0.05 percent against a minimum of 1.00 gives a skip.
C9_SizingDecision ==
    \A c \in Decided :
        LET lt == calls[c].bp * pct < minNotional * 10000
            rec == logs[calls[c].iter]
        IN  /\ lt => rec[2] = "BUY-SKIP"
            /\ ~lt =>
                  /\ rec[2] # "BUY-SKIP"
                  /\ c < Len(calls)
                  /\ calls[c + 1].op = "submit_order"
                  /\ calls[c + 1].notional \in NearestCents(calls[c].bp * pct)
            /\ (calls[c].bp = 100000 /\ pct = 500) => calls[c + 1].notional = 5000
            /\ (calls[c].bp = 100000 /\ pct = 5 /\ minNotional = 100) => rec[2] = "BUY-SKIP"

--------------------------------------------------------------------------
(* append_logs on its own: one call on a worksheet that has its header,    *)
(* for lists of records of all widths, short ones and ones of several      *)
(* batches, with a TypeError at any one append_rows call or at none.       *)
(* logs holds the rows argument.                                           *)

\* a record of 10 cells for row k; its first w cells are a row of width w
WideRecord(k) ==
    <<"T0Z", "BUY", "S" \o ToString(k), "1.00", "", "o" \o ToString(k), "accepted", "",
      "x9", "x10">>

\* width of row k under pattern p: all 8; 7, 8, 9 in turn; 0 to 10 in turn
RowWidth(p, k) ==
    IF p = 0 THEN LogCols
    ELSE IF p = 1 THEN LogCols - 1 + (k % 3)
    ELSE k % 11

InputRows(p, n) == [k \in 1..n |-> SubSeq(WideRecord(k), 1, RowWidth(p, k))]

InputLens ==
    (0..MaxSmallRows)
    \cup {b * BatchSize + d : b \in 1..MaxBatches, d \in {-1, 0, 1}}

AppendInputs == {InputRows(p, n) : p \in 0..2, n \in InputLens}

AppendSheets == {<<LOG_HEADERS>> \o rs : rs \in OldRowSeqs}

InitAppend ==
    /\ pc = "append"
    /\ logs \in AppendInputs
    /\ logWs \in AppendSheets
    /\ logWs0 = logWs
    /\ wsOps = <<>>
    /\ failure = "none"
    /\ exitStatus = -1
    /\ screenerValues = <<>>
    /\ pct = 500
    /\ minNotional = 100
    /\ brokerBP = 0
    /\ clock = 0
    /\ symbols = <<>>
    /\ i = 0
    /\ buying_power = 0
    /\ calls = <<>>

\* append_logs(ws, rows); i keeps the batch whose append_rows raised TypeError
AppendLogsCall ==
    /\ pc = "append"
    /\ \E errAt \in 0..((Len(logs) + BatchSize - 1) \div BatchSize) :
          /\ logWs' = append_logs(logWs, logs, errAt).ws
          /\ wsOps' = append_logs(logWs, logs, errAt).ops
          /\ i' = errAt
    /\ pc' = "append:done"
    /\ UNCHANGED <<failure, exitStatus, screenerValues, logWs0, pct, minNotional, brokerBP,
                   clock, symbols, buying_power, logs, calls>>

NextAppend == AppendLogsCall

SpecAppend == InitAppend /\ [][NextAppend]_vars

\* a record as the audit table takes it: 8 fields, the record's own first 8,
\* "" where it has none
Normalised(r) == [c \in 1..LogCols |-> IF c <= Len(r) THEN r[c] ELSE ""]

\* the rows of all append_rows calls, in call order
RECURSIVE AppendedRows(_)
AppendedRows(ops) ==
    IF ops = <<>> THEN <<>>
    ELSE (IF Head(ops).op = "append_rows" THEN Head(ops).rows ELSE <<>>)
         \o AppendedRows(Tail(ops))

\* the call went down the anchored path: no append_rows raised
AnchoredRun == pc = "append:done" /\ \A k \in 1..Len(wsOps) : wsOps[k].ok

\* C11: on the anchored path every row given to append_rows has exactly 8
\* fields (short records padded with "" on the right, long ones cut to their
\* first 8), every append_rows call has at most 100 rows, and the batches in
\* call order are the normalised input: each record once, in its order.
C11_AnchoredAppend ==
    AnchoredRun =>
        /\ \A k \in 1..Len(wsOps) :
              /\ wsOps[k].op = "append_rows"
              /\ Len(wsOps[k].rows) <= 100
              /\ Len(wsOps[k].rows) >= 1
              /\ \A r \in 1..Len(wsOps[k].rows) : Len(wsOps[k].rows[r]) = 8
        /\ Len(AppendedRows(wsOps)) = Len(logs)
        /\ \A r \in 1..Len(logs) : AppendedRows(wsOps)[r] = Normalised(logs[r])

\* more than two batches' worth of records, some short and some long
C11_Witness ==
    /\ AnchoredRun
    /\ Len(logs) = 2 * 100 + 1
    /\ Len(wsOps) = 3
    /\ \E r \in 1..Len(logs) : Len(logs[r]) < 8
    /\ \E r \in 1..Len(logs) : Len(logs[r]) > 8

\* the call took the fallback: an append_rows call raised TypeError
FallbackRun == pc = "append:done" /\ \E k \in 1..Len(wsOps) : ~wsOps[k].ok

\* the records are in the rows directly below the rows the worksheet had,
\* each once and in order, and the rows it had are as they were
WrittenOnceBelow ==
    /\ Len(logWs) <= Len(logWs0) + Len(logs)
    /\ \A r \in 1..Len(logWs0) : logWs[r] = logWs0[r]
    /\ \A r \in 1..Len(logs) : RowAH(logWs, Len(logWs0) + r) = Normalised(logs[r])

\* C12: whichever append_rows call raises TypeError, the fallback leaves the
\* audit table as the anchored path alone would have left it: every record
\* once, in order, in the rows directly after the previously last row, and
\* no row that was there before overwritten.
C12_FallbackEquivalence ==
    FallbackRun =>
        /\ logWs = append_logs(logWs0, logs, 0).ws
        /\ WrittenOnceBelow

--------------------------------------------------------------------------
(* The column read_screener_tickers reads, under SpecRead.                 *)

\* what reading column col (0-based) of the table gives
ReadColumn(col) == Dedup(CollectTickers(Tail(screenerValues), col), <<>>)

\* the 0-based index of the first header cell among those at the positions
\* in match, 0 when there is none
FirstOf(match) ==
    IF match = {} THEN 0 ELSE (CHOOSE k \in match : \A j \in match : k <= j) - 1

\* the claim as it was made: the column whose header cell is "Ticker" as it
\* stands, no character more
C19_ExactMatchColumn ==
    (pc = "read:done" /\ screenerValues # <<>>) =>
        LET h == Head(screenerValues)
        IN  symbols = ReadColumn(FirstOf({k \in 1..Len(h) : h[k] = TICKER}))

\* C19: the column read is the first one whose header cell, once its leading
\* and trailing whitespace is removed, is "Ticker" (case-sensitive); when no
\* header cell is, column 0 is read.
C19_TickerColumn ==
    (pc = "read:done" /\ screenerValues # <<>>) =>
        LET h == Head(screenerValues)
        IN  symbols = ReadColumn(FirstOf({k \in 1..Len(h) : Strip(h[k]) = TICKER}))

\* a header whose second cell is "Ticker" between spaces, the second column
\* read, and the first column holding something else
C19_Witness ==
    /\ pc = "read:done"
    /\ screenerValues # <<>>
    /\ Len(Head(screenerValues)) = 2
    /\ Head(screenerValues)[1] = NameCell
    /\ Head(screenerValues)[2] # TICKER
    /\ Strip(Head(screenerValues)[2]) = TICKER
    /\ symbols = ReadColumn(1)
    /\ symbols # ReadColumn(0)

--------------------------------------------------------------------------
(* The loop of main(), symbol by symbol.                                   *)

\* the state of the k-th symbol, from what the process did: Errored once a
\* call made for it raised, Submitted once its order was accepted, Skipped
\* once the loop has gone past it with neither, Pending until then
StateOf(k) ==
    IF FailedCalls(k) # {} THEN "Errored"
    ELSE IF \E c \in 1..Len(calls) :
               calls[c].op = "submit_order" /\ calls[c].iter = k /\ calls[c].ok
         THEN "Submitted"
    ELSE IF k < i THEN "Skipped"
    ELSE "Pending"

ActionOf(state) ==
    CASE state = "Skipped" -> "BUY-SKIP"
      [] state = "Submitted" -> "BUY"
      [] state = "Errored" -> "BUY-ERROR"
      [] OTHER -> "none"

\* C13: every symbol is Pending until it reaches one of Skipped, Submitted
\* and Errored, stays in that state from then on, and on reaching it adds
\* exactly one record, of Action BUY-SKIP, BUY or BUY-ERROR in that order;
\* the records are in ticker order, the k-th for the k-th ticker, and when
\* the loop is over no symbol is Pending.
C13_SymbolStateMachine ==
    /\ [](/\ \A k \in 1..Len(symbols) :
                IF k <= Len(logs)
                THEN /\ StateOf(k) \in {"Skipped", "Submitted", "Errored"}
                     /\ logs[k][2] = ActionOf(StateOf(k))
                     /\ logs[k][3] = symbols[k]
                ELSE StateOf(k) = "Pending"
          /\ Len(logs) <= Len(symbols)
          /\ AfterLoop => Len(logs) = Len(symbols))
    /\ [][\A k \in 1..Len(symbols) :
             StateOf(k) # "Pending" =>
                 /\ StateOf(k)' = StateOf(k)
                 /\ Len(logs') >= k
                 /\ logs'[k] = logs[k]]_vars

\* a finished cycle in which one symbol was skipped, one submitted, one errored
C13_Witness ==
    /\ pc = "returned"
    /\ Len(symbols) = 3
    /\ Len(logs) = 3
    /\ {StateOf(k) : k \in 1..3} = {"Skipped", "Submitted", "Errored"}

\* the append_rows calls made so far
AppendCalls == {k \in 1..Len(wsOps) : wsOps[k].op = "append_rows"}

\* C14: with tickers to buy, nothing is written to the audit table before
\* the last symbol has its record, append_logs is called exactly once, and
\* the list of records only ever grows, one record at its end at a time.
C14_SingleFlush ==
    /\ [](symbols # <<>> =>
            /\ FlushOps # <<>> =>
                  /\ i = Len(symbols) + 1
                  /\ Len(logs) = Len(symbols)
                  /\ pc \in {"returned", "exited"}
            /\ FlushOps = <<>> =>
                  \A r \in 2..Max2(Len(logWs), Len(logWs0)) :
                      RowOf(logWs, r) = RowOf(logWs0, r)
            /\ Cardinality(AppendCalls) <= 1
            /\ (pc \in {"returned", "exited"} /\ failure = "none") =>
                  Cardinality(AppendCalls) = 1)
    /\ [][/\ logs' = logs \/ \E r \in {logs'[Len(logs')]} : logs' = Append(logs, r)
          /\ FlushOps' # FlushOps => pc = "flush" /\ logs' = logs]_vars

C14_Witness ==
    /\ pc = "returned"
    /\ Len(symbols) = 3
    /\ \E k \in AppendCalls : wsOps[k].ok /\ Len(wsOps[k].rows) = 3
    /\ Len(logWs) = Len(logWs0) + 3

\* C15: an accepted submit_order is followed by the sleep of the configured
\* length before any further brokerage call, and a sleep follows nothing but
\* an accepted submit_order: none after a skipped or an errored symbol.
C15_Throttling ==
    /\ [](\A c \in 1..Len(calls) :
            /\ (calls[c].op = "submit_order" /\ calls[c].ok) =>
                  IF c = Len(calls) THEN pc = "sleep"
                  ELSE calls[c + 1].op = "sleep" /\ calls[c + 1].iter = calls[c].iter
            /\ calls[c].op = "sleep" =>
                  /\ c > 1
                  /\ calls[c - 1].op = "submit_order"
                  /\ calls[c - 1].ok
                  /\ calls[c - 1].iter = calls[c].iter)
    /\ [][(Len(calls') = Len(calls) + 1 /\ calls'[Len(calls')].op = "sleep") =>
             clock' = clock + SleepMs]_vars

\* an accepted order, its sleep, then the next symbol's get_account; and a
\* symbol that was skipped or errored, with no sleep
C15_Witness ==
    /\ pc = "returned"
    /\ \E c \in 1..(Len(calls) - 2) :
          /\ calls[c].op = "submit_order" /\ calls[c].ok
          /\ calls[c + 1].op = "sleep"
          /\ calls[c + 2].op = "get_account"
    /\ \E k \in 1..Len(symbols) :
          /\ StateOf(k) \in {"Skipped", "Errored"}
          /\ \A c \in 1..Len(calls) : calls[c].op = "sleep" => calls[c].iter # k

\* the submit_order calls made for a ticker, and for the k-th symbol
SubmitsFor(sym) == {c \in 1..Len(calls) : calls[c].op = "submit_order" /\ calls[c].sym = sym}

AccountFailed(k) ==
    \E c \in 1..Len(calls) : calls[c].op = "get_account" /\ calls[c].iter = k /\ ~calls[c].ok

\* the buying power that get_account gave for the k-th symbol
AccountOf(k) ==
    calls[CHOOSE c \in 1..Len(calls) :
              calls[c].op = "get_account" /\ calls[c].iter = k /\ calls[c].ok].bp

\* C16: in one cycle submit_order is called at most once for a ticker: once
\* for a symbol whose sizing says to proceed, never for a skipped symbol nor
\* for one whose get_account raised; a symbol whose submit_order raised is
\* not submitted again.
C16_NoDoubleBuy ==
    /\ \A j, k \in 1..Len(symbols) : j # k => symbols[j] # symbols[k]
    /\ \A c \in 1..Len(calls) :
          /\ calls[c].iter \in 1..Len(symbols)
          /\ calls[c].sym = symbols[calls[c].iter]
    /\ \A k \in 1..Len(symbols) :
          /\ Cardinality(SubmitsFor(symbols[k])) <= 1
          /\ k <= Len(logs) =>
                IF AccountFailed(k) \/ logs[k][2] = "BUY-SKIP"
                THEN SubmitsFor(symbols[k]) = {}
                ELSE Cardinality(SubmitsFor(symbols[k])) = 1
          /\ (k <= Len(logs) /\ ~AccountFailed(k)) =>
                /\ Notional(AccountOf(k), pct) > minNotional * 10000 =>
                      Cardinality(SubmitsFor(symbols[k])) = 1
                /\ Notional(AccountOf(k), pct) < minNotional * 10000 =>
                      SubmitsFor(symbols[k]) = {}

\* a screener that names a ticker twice, a submission that raised and one
\* that was accepted
C16_Witness ==
    /\ pc = "returned"
    /\ Len(screenerValues) - 1 > Len(symbols)
    /\ \E c \in 1..Len(calls) : calls[c].op = "submit_order" /\ ~calls[c].ok
    /\ \E c \in 1..Len(calls) : calls[c].op = "submit_order" /\ calls[c].ok
    /\ \E k \in 1..Len(symbols) : AccountFailed(k)

\* C17: a record's Action is BUY, BUY-SKIP or BUY-ERROR; a BUY-SKIP record
\* has Status SKIPPED and no Qty and OrderID; a BUY-ERROR record has Status
\* ERROR, no NotionalUSD, Qty and OrderID, and a Note; a BUY record has no
\* Note and the Status of the brokerage's answer, "submitted" when the
\* answer has none.
C17_RecordShape ==
    \A k \in 1..Len(logs) :
        /\ Len(logs[k]) = 8
        /\ logs[k][2] \in {"BUY", "BUY-SKIP", "BUY-ERROR"}
        /\ logs[k][2] = "BUY-SKIP" =>
              logs[k][7] = "SKIPPED" /\ logs[k][5] = "" /\ logs[k][6] = ""
        /\ logs[k][2] = "BUY-ERROR" =>
              /\ logs[k][7] = "ERROR"
              /\ logs[k][4] = "" /\ logs[k][5] = "" /\ logs[k][6] = ""
              /\ logs[k][8] # ""
        /\ logs[k][2] = "BUY" =>
              /\ logs[k][8] = ""
              /\ \E resp \in Responses :
                    /\ resp.qty = logs[k][5]
                    /\ logs[k][7] = IF resp.hasStatus THEN resp.status ELSE "submitted"

\* records of all three kinds, one of them for an answer without a status
C17_Witness ==
    /\ pc = "flush"
    /\ {logs[k][2] : k \in 1..Len(logs)} = {"BUY", "BUY-SKIP", "BUY-ERROR"}
    /\ \E k \in 1..Len(logs) : logs[k][2] = "BUY" /\ logs[k][7] = "submitted"

\* C18: every order request sent carries a notional above zero and not below
\* MIN_ORDER_NOTIONAL, whatever the buying power, the percentage and the
\* minimum that the configuration holds.
C18_OrderNotional ==
    \A c \in 1..Len(calls) :
        calls[c].op = "submit_order" =>
            calls[c].notional > 0 /\ calls[c].notional >= minNotional

====
